---- MODULE Spec2Model ----
(***************************************************************************)
(* Model of the animautomata progress clock (src/src/animautomaton.ts):    *)
(* the Animautomaton base class with its wall-clock driven animate() tick, *)
(* play/pause accounting, frame seeking and setConfig.                     *)
(*                                                                         *)
(* Numbers.  Timestamps are integer milliseconds.  Every other number of   *)
(* the program (progress, fps-derived frame lengths, mutationInterval,     *)
(* nIterations) is an exact rational <<numerator, denominator>> kept in    *)
(* lowest terms; <<1, 0>> is JavaScript's Infinity.                        *)
(***************************************************************************)
EXTENDS Integers, Sequences, FiniteSets, TLC

----------------------------------------------------------------------------
(* Bounds of the exploration *)

MaxTime == 6
MaxCalls == 3
MaxPending == 2

----------------------------------------------------------------------------
(* Exact rational arithmetic *)

Abs(n) == IF n < 0 THEN -n ELSE n

RECURSIVE GCD(_, _)
GCD(a, b) == IF b = 0 THEN a ELSE GCD(b, a % b)

Norm(n, d) ==
  LET g == GCD(Abs(n), d)
  IN  IF g = 0 THEN <<0, 1>> ELSE <<n \div g, d \div g>>

Rat(n) == <<n, 1>>
Zero == <<0, 1>>
One == <<1, 1>>
Infinity == <<1, 0>>

RAdd(a, b) ==
  LET g == GCD(a[2], b[2])
  IN  IF g = 0
        THEN Norm(a[1] * b[2] + b[1] * a[2], a[2] * b[2])
        ELSE Norm(a[1] * (b[2] \div g) + b[1] * (a[2] \div g), (a[2] \div g) * b[2])
RMul(a, b) == Norm(a[1] * b[1], a[2] * b[2])
RDiv(a, b) == Norm(a[1] * b[2], a[2] * b[1])
RLe(a, b) == a[1] * b[2] <= b[1] * a[2]
RLt(a, b) == a[1] * b[2] < b[1] * a[2]
RMin(a, b) == IF RLe(a, b) THEN a ELSE b
RMax(a, b) == IF RLe(a, b) THEN b ELSE a

----------------------------------------------------------------------------
(* src/src/utils.ts *)

ClampNoMax(min, candidate, max) == RMax(min, candidate)

clamp(min, candidate, max) == RMax(min, RMin(max, candidate))

(* JavaScript's % on integers: the result takes the sign of the dividend *)
JsRem(n, m) == IF n >= 0 THEN n % m ELSE -((-n) % m)

modulo(n, m) == JsRem(JsRem(n, m) + m, m)

----------------------------------------------------------------------------
(* Inputs *)

SeekValues == {-1, 3}
StartValues == {0, 1}

(* A partial options object is a function from the supplied keys to values *)
Partial(k, v) == [x \in {k} |-> v]

ConfigInputs ==
  {Partial("currProgress", Rat(2))}
    \cup {Partial("fps", 500)}
    \cup {Partial("cycleDuration_ms", 4)}
    \cup {Partial("currIteration", 1)}
    \cup {Partial("nIterations", Rat(1))}
    \cup {Partial("mutationInterval", Rat(2))}
    \cup {Partial("paused", v) : v \in BOOLEAN}

ConstructorInputs ==
  { [fps |-> 1000, cycleDuration_ms |-> 3],
    [fps |-> 500, cycleDuration_ms |-> 4, nIterations |-> Rat(1)],
    [fps |-> 1000, cycleDuration_ms |-> 3, nIterations |-> Rat(2),
     mutationInterval |-> <<1, 2>>] }

----------------------------------------------------------------------------
(* State *)

VARIABLES
  now,                    \* performance.now()
  start, lastDraw, lastMutationTimestamp, pauseTimestamp, pauseDuration,
  paused, currProgress, lastProgress, currIteration, nIterations,
  fps, cycleDuration_ms, mutationInterval,
  pending,                \* animate callbacks registered with requestAnimationFrame
  calls,                  \* number of API calls made so far
  last,                   \* what the last step did
  pausedTotal,            \* milliseconds really spent with paused = TRUE
  resume,                 \* the pause/resume episode in progress
  drawnAt,                \* the unpaused clock at the last drawn tick
  halted,                 \* "cap" once animate() has paused at nIterations
  drawTime,               \* performance.now() at the last draw() issued by animate, or -1
  pristine,               \* the iteration count has run from 0 without interference
  inst,                   \* the preset instances constructed so far, by instance number
  heap,                   \* the arrays and descriptor objects that fields refer to
  self,                   \* the drawing options of one instance, and its drawing context
  ret                     \* the outcome of the last drawing call on that instance

clock == <<now, start, lastDraw, lastMutationTimestamp, pauseTimestamp, pauseDuration>>
config == <<nIterations, fps, cycleDuration_ms, mutationInterval>>
progress == <<currProgress, lastProgress, currIteration>>
vars == <<now, start, lastDraw, lastMutationTimestamp, pauseTimestamp, pauseDuration,
          paused, currProgress, lastProgress, currIteration, nIterations,
          fps, cycleDuration_ms, mutationInterval, pending, calls, last,
          pausedTotal, resume, drawnAt, halted, drawTime, pristine, inst, heap, self, ret>>

(* the state of the objects the progress clock does not touch *)
others == <<inst, heap, self, ret>>

(* the progress clock, for the operations that do not touch it *)
idle == <<clock, paused, progress, config, pending, pausedTotal, resume, drawnAt,
          halted, drawTime, pristine>>

(* the same, without currProgress *)
still == <<clock, paused, lastProgress, currIteration, config, pending, calls, last,
           pausedTotal, resume, drawnAt, halted, drawTime, pristine, inst, heap>>

NoResume == [phase |-> "none", t1 |-> 0, t2 |-> 0, pd |-> 0]
NotDrawn == [valid |-> FALSE, clock |-> 0]

Quiet(op) ==
  [op |-> op, arg |-> 0, drew |-> FALSE, mutated |-> FALSE, stopped |-> FALSE,
   mutationDelta |-> 0, crossings |-> -1,
   prevProgress |-> Zero, prevIteration |-> 0, prevHalted |-> "no",
   beforeOp |-> "none", beforeArg |-> 0, beforeProgress |-> Zero]

----------------------------------------------------------------------------
(* Derived quantities *)

msPerFrame(f) == <<1000, f>>

progressPerFrame(f, c) == RDiv(Norm(1000, f), Rat(c))

Get(ops, key, old) == IF key \in DOMAIN ops THEN ops[key] ELSE old

----------------------------------------------------------------------------
(* Constructor: defaults, then setConfig(ops) in the preset's constructor *)

Init ==
  /\ now \in StartValues
  /\ start = now
  /\ lastDraw = now
  /\ lastMutationTimestamp = now
  /\ pauseTimestamp = 0
  /\ pauseDuration = 0
  /\ currProgress = Zero
  /\ lastProgress = Zero
  /\ currIteration = 0
  /\ paused = FALSE
  /\ \E ops \in ConstructorInputs :
       /\ fps = Get(ops, "fps", 60)
       /\ cycleDuration_ms = Get(ops, "cycleDuration_ms", 1500)
       /\ nIterations = Get(ops, "nIterations", Infinity)
       /\ mutationInterval = Get(ops, "mutationInterval", Infinity)
  /\ pending = 0
  /\ calls = 0
  /\ last = Quiet("new")
  /\ pausedTotal = 0
  /\ resume = NoResume
  /\ drawnAt = NotDrawn
  /\ halted = "no"
  /\ drawTime = -1
  /\ pristine = TRUE
  /\ inst = << >>
  /\ heap = << >>
  /\ self = << >>
  /\ ret = << >>

----------------------------------------------------------------------------
(* The host: time passes *)

Tick ==
  /\ now < MaxTime
  /\ now' = now + 1
  /\ pausedTotal' = IF paused THEN pausedTotal + 1 ELSE pausedTotal
  /\ last' = Quiet("tick")
  /\ UNCHANGED <<start, lastDraw, lastMutationTimestamp, pauseTimestamp,
                 pauseDuration, paused, progress, config, pending, calls, resume,
                 drawnAt, halted, drawTime, pristine, others>>

----------------------------------------------------------------------------
(* setConfig: every supplied field is stored, every omitted one is kept *)

SetConfig(ops) ==
  /\ calls < MaxCalls
  /\ calls' = calls + 1
  /\ currProgress' = Get(ops, "currProgress", currProgress)
  /\ lastProgress' = Get(ops, "lastProgress", lastProgress)
  /\ fps' = Get(ops, "fps", fps)
  /\ cycleDuration_ms' = Get(ops, "cycleDuration_ms", cycleDuration_ms)
  /\ currIteration' = Get(ops, "currIteration", currIteration)
  /\ nIterations' = Get(ops, "nIterations", nIterations)
  /\ paused' = Get(ops, "paused", paused)
  /\ mutationInterval' = Get(ops, "mutationInterval", mutationInterval)
  /\ last' = [Quiet("setConfig") EXCEPT !.prevProgress = currProgress]
  /\ resume' = NoResume
  /\ drawnAt' = NotDrawn
  /\ halted' = IF halted = "cap" /\ ~paused' THEN "cfg" ELSE halted
  /\ pristine' = (pristine /\ halted' = "no"
                     /\ DOMAIN ops \cap {"currIteration", "nIterations"} = {})
  /\ UNCHANGED <<clock, pending, pausedTotal, drawTime, others>>

----------------------------------------------------------------------------
(* seek and step *)

seekNoSnap(p, frames, f, c) ==
  clamp(Zero, RAdd(IF p = One THEN Zero ELSE p,
                   RMul(Rat(frames), progressPerFrame(f, c))), One)

seekProgress(p, frames, f, c) ==
  IF p = One
    THEN Zero
    ELSE clamp(Zero, RAdd(p, RMul(Rat(frames), progressPerFrame(f, c))), One)

seek(op, frames) ==
  /\ calls < MaxCalls
  /\ calls' = calls + 1
  /\ lastProgress' = currProgress
  /\ currProgress' = seekProgress(currProgress, frames, fps, cycleDuration_ms)
  /\ last' = [Quiet(op) EXCEPT !.arg = frames, !.drew = TRUE,
                               !.prevProgress = currProgress,
                               !.beforeOp = last.op, !.beforeArg = last.arg,
                               !.beforeProgress = last.prevProgress]
  /\ resume' = NoResume
  /\ drawnAt' = NotDrawn
  /\ UNCHANGED <<clock, paused, currIteration, config, pending, pausedTotal, halted,
                 drawTime, pristine, others>>

Seek(frames) == seek("seek", frames)

Step == seek("step", 1)

----------------------------------------------------------------------------
(* play and pause *)

Play ==
  /\ calls < MaxCalls
  /\ pending < MaxPending
  /\ calls' = calls + 1
  /\ paused' = FALSE
  /\ lastDraw' = now
  /\ pauseDuration' = pauseDuration + (now - pauseTimestamp)
  /\ pending' = pending + 1
  /\ last' = Quiet("play")
  /\ resume' = IF resume.phase = "paused"
                 THEN [resume EXCEPT !.phase = "resumed", !.t2 = now]
                 ELSE NoResume
  /\ drawnAt' = NotDrawn
  /\ halted' = "no"
  /\ pristine' = (pristine /\ halted = "no")
  /\ UNCHANGED <<now, start, lastMutationTimestamp, pauseTimestamp, progress,
                 config, pausedTotal, drawTime, others>>

(* the episode that begins when a playing animation is paused *)
Paused(wasPaused) ==
  IF wasPaused
    THEN resume
    ELSE [phase |-> "paused", t1 |-> now, t2 |-> now, pd |-> pauseDuration]

Pause ==
  /\ calls < MaxCalls
  /\ calls' = calls + 1
  /\ paused' = TRUE
  /\ pauseTimestamp' = now
  /\ last' = Quiet("pause")
  /\ resume' = Paused(paused)
  /\ drawnAt' = NotDrawn
  /\ UNCHANGED <<now, start, lastDraw, lastMutationTimestamp, pauseDuration,
                 progress, config, pending, pausedTotal, halted, drawTime, pristine,
                 others>>

----------------------------------------------------------------------------
(* animate: one firing of a registered animation-frame callback *)

animateProgress(t, pd, st, c) == Norm(modulo(t - pd - st, c), c)

mutationDue(delta, interval) == RLe(interval, Rat(delta))

wrapped(lastP, currP) == RLt(currP, lastP)

capReachedOff(iteration, n) == FALSE

capReached(iteration, n) == RLe(n, Rat(iteration))

throttledOff(delta, f) == FALSE

throttled(delta, f) == RLt(Rat(delta), msPerFrame(f))

(* the callbacks registered once one of them has run: it is consumed, and   *)
(* requests the next frame unless the animation is paused                   *)
registeredAlways(n, isPaused) == n

registered(n, isPaused) == IF isPaused THEN n - 1 ELSE n

Animate ==
  /\ pending > 0
  /\ IF paused
       THEN \* the callback returns without requesting another frame
         /\ pending' = registered(pending, paused)
         /\ last' = [Quiet("animate") EXCEPT !.prevHalted = halted,
                                             !.prevProgress = currProgress,
                                             !.prevIteration = currIteration]
         /\ UNCHANGED <<clock, paused, progress, config, calls, pausedTotal,
                        resume, drawnAt, halted, drawTime, pristine, others>>
       ELSE
         LET delta == now - lastDraw
             mutationDelta == now - lastMutationTimestamp
             mutate == mutationDue(mutationDelta, mutationInterval)
             unpaused == now - pauseDuration - start
             fresh == animateProgress(now, pauseDuration, start, cycleDuration_ms)
             wrap == wrapped(currProgress, fresh)
             stop == wrap /\ capReached(currIteration + 1, nIterations)
             crossed == IF drawnAt.valid
                          THEN (unpaused \div cycleDuration_ms)
                                 - (drawnAt.clock \div cycleDuration_ms)
                          ELSE -1
             rec == [Quiet("animate") EXCEPT !.prevHalted = halted,
                                             !.prevProgress = currProgress,
                                             !.prevIteration = currIteration]
         IN  /\ pending' = registered(pending, paused)
             /\ IF throttled(delta, fps)
                  THEN
                    /\ last' = rec
                    /\ UNCHANGED <<clock, paused, progress, config, calls,
                                   pausedTotal, resume, drawnAt, halted, drawTime,
                                   pristine, others>>
                  ELSE
                    /\ lastMutationTimestamp' =
                         IF mutate THEN now ELSE lastMutationTimestamp
                    /\ lastProgress' = currProgress
                    /\ currProgress' = fresh
                    /\ currIteration' = IF wrap THEN currIteration + 1 ELSE currIteration
                    /\ paused' = stop
                    /\ pauseTimestamp' = IF stop THEN now ELSE pauseTimestamp
                    /\ lastDraw' = now
                    /\ last' = [rec EXCEPT !.drew = TRUE, !.mutated = mutate,
                                           !.stopped = stop,
                                           !.mutationDelta = mutationDelta,
                                           !.crossings = crossed]
                    /\ resume' = IF stop THEN Paused(FALSE) ELSE resume
                    /\ drawnAt' = [valid |-> TRUE, clock |-> unpaused]
                    /\ halted' = IF stop THEN "cap" ELSE halted
                    /\ drawTime' = now
                    /\ UNCHANGED <<now, start, pauseDuration, config, calls,
                                   pausedTotal, pristine, others>>

----------------------------------------------------------------------------

Next ==
  \/ Tick
  \/ \E ops \in ConfigInputs : SetConfig(ops)
  \/ \E frames \in SeekValues : Seek(frames)
  \/ Step
  \/ Play
  \/ Pause
  \/ Animate

Spec == Init /\ [][Next]_vars

(* the frame scheduler runs every callback registered with it *)
SpecFair == Init /\ [][Next]_vars /\ WF_vars(Animate)

----------------------------------------------------------------------------
(* The presets' configuration: Antiquum, Sempiternal and Lemniscate         *)
(* instances, their option fields, and the objects those fields refer to.   *)

(* A freshly constructed progress clock, for the specifications that leave  *)
(* the clock alone.                                                         *)
Constructed ==
  /\ now = 0
  /\ start = now
  /\ lastDraw = now
  /\ lastMutationTimestamp = now
  /\ pauseTimestamp = 0
  /\ pauseDuration = 0
  /\ lastProgress = Zero
  /\ currIteration = 0
  /\ paused = FALSE
  /\ fps = 60
  /\ cycleDuration_ms = 1500
  /\ nIterations = Infinity
  /\ mutationInterval = Infinity
  /\ pending = 0
  /\ calls = 0
  /\ pausedTotal = 0
  /\ resume = NoResume
  /\ drawnAt = NotDrawn
  /\ halted = "no"
  /\ drawTime = -1
  /\ pristine = TRUE

(* Field values: numbers, strings, null, and references to heap objects *)
Num(n) == [kind |-> "number", n |-> n]
Str(n) == [kind |-> "string", n |-> n]
Ref(n) == [kind |-> "ref", n |-> n]
Null == [kind |-> "null", n |-> 0]

Presets == {"Antiquum", "Sempiternal", "Lemniscate"}
Ids == {1, 2}

(* the options that the model follows: of the base class, and of each preset *)
BaseFields == {"currProgress", "backgroundColour", "colours"}
AntiquumOps == {"arcs", "leadCap"}
SempiternalOps == {"sideLength", "opacityPulse"}
LemniscateOps == {"arcs", "xOff"}

OwnFields(preset) ==
  CASE preset = "Antiquum" -> AntiquumOps
    [] preset = "Sempiternal" -> SempiternalOps
    [] preset = "Lemniscate" -> LemniscateOps

(* the fields the preset's setConfig assigns: Antiquum and Sempiternal      *)
(* override setConfig, calling the parent's and then storing their own;     *)
(* Lemniscate inherits the parent's                                         *)
SetConfigFields(preset) ==
  IF preset = "Lemniscate" THEN BaseFields ELSE BaseFields \cup OwnFields(preset)

(* the fields the preset's constructor takes from ops: Antiquum and         *)
(* Sempiternal pass ops to setConfig; Lemniscate passes them to a parent    *)
(* constructor that takes the canvas id alone, and reads its own options    *)
ConstructorFields(preset) ==
  IF preset = "Lemniscate" THEN OwnFields(preset) ELSE BaseFields \cup OwnFields(preset)

(* the objects of the caller: a colours array and a pulse descriptor *)
CallerColours == 1
CallerPulse == 2
CallerHeap == <<10, 20>>

(* the objects a constructor allocates: the default colours array, and for  *)
(* Sempiternal the clone of the default pulse                               *)
DefaultObjects(preset) == IF preset = "Sempiternal" THEN <<0, 0>> ELSE <<0>>

(* the defaults a constructor sets, h being the heap before it runs *)
Defaults(preset, h) ==
  LET base == [f \in BaseFields |->
                 CASE f = "currProgress" -> Num(0)
                   [] f = "backgroundColour" -> Null
                   [] f = "colours" -> Ref(Len(h) + 1)]
      own == [f \in OwnFields(preset) |->
                CASE f = "arcs" -> Num(1)
                  [] f = "leadCap" -> Null
                  [] f = "sideLength" -> Num(3)
                  [] f = "opacityPulse" -> Ref(Len(h) + 2)
                  [] f = "xOff" -> Num(25)]
  IN  [f \in BaseFields \cup OwnFields(preset) |->
         IF f \in BaseFields THEN base[f] ELSE own[f]]

(* ops.key ?? old: a key that is absent or null yields the old value *)
Nullish(ops, key, old) ==
  IF key \in DOMAIN ops /\ ops[key] # Null THEN ops[key] ELSE old

applyConfig(fields, assigned, ops) ==
  [f \in DOMAIN fields |->
     IF f \in assigned THEN Nullish(ops, f, fields[f]) ELSE fields[f]]

(* the partial options objects of the exploration *)
OptionValues(key) ==
  CASE key = "currProgress" -> {Num(2)}
    [] key = "backgroundColour" -> {Str(1), Null}
    [] key = "colours" -> {Ref(CallerColours)}
    [] key = "arcs" -> {Num(2)}
    [] key = "leadCap" -> {Str(2), Null}
    [] key = "sideLength" -> {Num(5)}
    [] key = "opacityPulse" -> {Ref(CallerPulse)}
    [] key = "xOff" -> {Num(30)}

AllFields == BaseFields \cup UNION {OwnFields(preset) : preset \in Presets}

PresetOps == {<< >>} \cup UNION {{Partial(k, v) : v \in OptionValues(k)} : k \in AllFields}

InitPresets ==
  /\ Constructed
  /\ currProgress = Zero
  /\ self = << >>
  /\ ret = << >>
  /\ inst = << >>
  /\ heap = CallerHeap
  /\ last = [op |-> "none", target |-> 0, ops |-> << >>, before |-> << >>]

(* new Preset("canvas", ops) *)
New(i, preset, ops) ==
  /\ calls < MaxCalls
  /\ calls' = calls + 1
  /\ i \notin DOMAIN inst
  /\ DOMAIN ops \subseteq BaseFields \cup OwnFields(preset)
  /\ LET d == Defaults(preset, heap)
         built == [preset |-> preset,
                   fields |-> applyConfig(d, ConstructorFields(preset), ops)]
     IN  /\ inst' = [j \in DOMAIN inst \cup {i} |-> IF j = i THEN built ELSE inst[j]]
         /\ heap' = heap \o DefaultObjects(preset)
         /\ last' = [op |-> "new", target |-> i, ops |-> ops, before |-> d]
  /\ UNCHANGED <<idle, self, ret>>

(* instance.setConfig(ops) *)
PresetSetConfig(i, ops) ==
  /\ calls < MaxCalls
  /\ calls' = calls + 1
  /\ i \in DOMAIN inst
  /\ DOMAIN ops \subseteq DOMAIN inst[i].fields
  /\ inst' = [inst EXCEPT
                ![i].fields = applyConfig(@, SetConfigFields(inst[i].preset), ops)]
  /\ last' = [op |-> "setConfig", target |-> i, ops |-> ops,
              before |-> inst[i].fields]
  /\ UNCHANGED <<idle, heap, self, ret>>

(* instance.field = value, for a field holding a number *)
AssignField(i, f) ==
  /\ calls < MaxCalls
  /\ calls' = calls + 1
  /\ i \in DOMAIN inst
  /\ f \in DOMAIN inst[i].fields
  /\ inst[i].fields[f].kind = "number"
  /\ inst' = [inst EXCEPT ![i].fields[f] = Num(7)]
  /\ last' = [op |-> "assign", target |-> i, ops |-> << >>,
              before |-> inst[i].fields]
  /\ UNCHANGED <<idle, heap, self, ret>>

(* instance.field[0] = value or instance.field.style = value, for a field   *)
(* holding an array or a descriptor                                         *)
MutateField(i, f) ==
  /\ calls < MaxCalls
  /\ calls' = calls + 1
  /\ i \in DOMAIN inst
  /\ f \in DOMAIN inst[i].fields
  /\ inst[i].fields[f].kind = "ref"
  /\ heap' = [heap EXCEPT ![inst[i].fields[f].n] = 99]
  /\ last' = [op |-> "mutate", target |-> i, ops |-> << >>,
              before |-> inst[i].fields]
  /\ UNCHANGED <<idle, inst, self, ret>>

NextPresets ==
  \/ \E i \in Ids, preset \in Presets, ops \in PresetOps : New(i, preset, ops)
  \/ \E i \in Ids, ops \in PresetOps : PresetSetConfig(i, ops)
  \/ \E i \in Ids, f \in AllFields : AssignField(i, f)
  \/ \E i \in Ids, f \in AllFields : MutateField(i, f)

SpecPresets == InitPresets /\ [][NextPresets]_vars

----------------------------------------------------------------------------
(* Drawing: the timing functions, which turn currProgress into the eased   *)
(* progress a frame is drawn with.                                          *)

RNeg(a) == <<-a[1], a[2]>>
RSub(a, b) == RAdd(a, RNeg(b))

(* JavaScript's a % 1 on numbers: the fractional part, with the sign of a *)
RemOne(a) == Norm(JsRem(a[1], a[2]), a[2])

RECURSIVE RPow(_, _)
RPow(x, n) == IF n = 0 THEN One ELSE RMul(x, RPow(x, n - 1))

(* an argument that was not passed *)
Undefined == <<0, 0>>

(* JavaScript's truthiness of an optional number: undefined and 0 are falsy *)
Truthy(offset) == offset[1] # 0

(* Math.sin(x * Math.PI) where it is rational: x a multiple of 1/6 whose    *)
(* sine is 0, 1/2 or 1 in absolute value                                    *)
SinGrid(x) == (6 * x[1]) % x[2] = 0 /\ (((6 * x[1]) \div x[2]) % 12) \notin {2, 4, 8, 10}

sinPi(x) ==
  LET k == ((6 * x[1]) \div x[2]) % 12
  IN  CASE k \in {0, 6} -> Zero
        [] k \in {1, 5} -> <<1, 2>>
        [] k = 3 -> One
        [] k \in {7, 11} -> <<-1, 2>>
        [] k = 9 -> <<-1, 1>>

offsetProgress(p, offset) ==
  IF Truthy(offset) THEN RemOne(RAdd(RAdd(p, One), offset)) ELSE p

(* x = Math.min(1, offset_progress / (1 - this.rest)) *)
restedNoRest(op, rest) == RMin(One, op)

rested(op, rest) == RMin(One, RDiv(op, RSub(One, rest)))

getProgressLinear(p, rest, offset) == rested(offsetProgress(p, offset), rest)

getProgressExponential(pow, p, rest, offset) ==
  RPow(rested(offsetProgress(p, offset), rest), pow)

getProgressSinusoidal(p, rest, offset) ==
  LET x == rested(offsetProgress(p, offset), rest)
  IN  RAdd(<<1, 2>>, RDiv(sinPi(RSub(x, <<1, 2>>)), Rat(2)))

(* the functions customTimingFunction can hold: the default, a function of  *)
(* the caller (which always returns UserResult), or nothing                 *)
UserResult == <<3, 4>>

customTimingFunction(fn, p, rest, offset) ==
  IF fn = "getProgressLinear" THEN getProgressLinear(p, rest, offset) ELSE UserResult

Returned(v) == [thrown |-> FALSE, value |-> v]
Thrown == [thrown |-> TRUE, value |-> Zero]

getProgress(s, p, offset) ==
  CASE s.timingFunction = "sinusoidal" -> Returned(getProgressSinusoidal(p, s.rest, offset))
    [] s.timingFunction = "quadratic" -> Returned(getProgressExponential(2, p, s.rest, offset))
    [] s.timingFunction = "cubic" -> Returned(getProgressExponential(3, p, s.rest, offset))
    [] s.timingFunction = "custom" ->
         IF s.customTimingFunction = "null"
           THEN Thrown
           ELSE Returned(customTimingFunction(s.customTimingFunction, p, s.rest, offset))
    [] OTHER -> Returned(getProgressLinear(p, s.rest, offset))

----------------------------------------------------------------------------
(* Drawing: colours *)

HexDigits ==
  <<"0", "1", "2", "3", "4", "5", "6", "7", "8", "9", "a", "b", "c", "d", "e", "f">>

(* n.toString(16), n >= 0 *)
RECURSIVE toString16(_)
toString16(n) ==
  IF n < 16 THEN HexDigits[n + 1] ELSE toString16(n \div 16) \o HexDigits[(n % 16) + 1]

(* str.padStart(2, "0") *)
padStart2(str) == IF Len(str) < 2 THEN "0" \o str ELSE str

(* Math.floor *)
roundHalfUp(x) == (2 * x[1] + x[2]) \div (2 * x[2])

floor(x) == x[1] \div x[2]

(* the colour string ctxSetColour(offset) puts in strokeStyle, fillStyle    *)
(* and currColour                                                           *)
ctxSetColour(s, offset) ==
  LET n == Len(s.colours)
      modOffset == modulo(offset, n)
      opacity == floor(RMul(RMax(Zero,
                                 RSub(s.opacity,
                                      RMul(Rat(n - 1 - modOffset), s.opacityDelta))),
                            Rat(255)))
  IN  s.colours[modOffset + 1] \o padStart2(toString16(opacity))

(* the colour string ctxModifyOpacity(modifier) makes of the colour string  *)
(* styleString: its characters 0..6 are kept, and its characters 7..8 are   *)
(* read as a hexadecimal number (the first two digits of an alpha of three  *)
(* digits; not a number when the string is empty)                           *)
ctxModifyOpacity(colours, styleString, modifier) ==
  LET parses == {cn \in {colours[k] : k \in DOMAIN colours} \X (0..510) :
                   styleString = cn[1] \o padStart2(toString16(cn[2]))}
  IN  IF parses = {} THEN styleString \o "NaN"
      ELSE LET cn == CHOOSE x \in parses : TRUE
               opacityValue == IF cn[2] < 256 THEN cn[2] ELSE cn[2] \div 16
               modifiedOpacity ==
                 floor(RAdd(Rat(opacityValue), RMul(Rat(opacityValue), modifier)))
           IN  cn[1] \o padStart2(toString16(modifiedOpacity))

----------------------------------------------------------------------------
(* Drawing: Antiquum's offsets and line caps, Sempiternal's radius pulse *)

arcWidthDiff(s, i) == RMul(RMul(Rat(s.arcs - (i + 1)), s.arcWidthDelta), s.arcWidth)

calculateOffsets(s, arc_i, diff) ==
  LET radius == RSub(s.radius,
                     RMul(RMul(Rat(s.arcs - (arc_i + 1)), s.radiusDelta), s.radius))
      half == RDiv(diff, Rat(2))
      body == RSub(s.arcWidth, diff)
      offsets(outer, inner, mid) ==
        Returned([outer |-> RMax(outer, Zero), inner |-> RMax(inner, Zero),
                  mid |-> RMax(mid, Zero)])
  IN  CASE s.arcAnchor = "centre" ->
             offsets(RSub(radius, half),
                     RAdd(RSub(radius, s.arcWidth), half),
                     RSub(RSub(radius, half), RDiv(body, Rat(2))))
        [] s.arcAnchor = "inner" ->
             offsets(RSub(radius, diff),
                     RSub(radius, s.arcWidth),
                     RSub(RSub(radius, diff), RDiv(body, Rat(2))))
        [] s.arcAnchor = "outer" ->
             offsets(radius, RSub(radius, body), RSub(radius, RDiv(body, Rat(2))))
        [] OTHER -> Thrown

(* the cap drawn at the lead or the tail: rounded, or else the straight     *)
(* line of a flat cap                                                       *)
capDrawn(lineCap, endCap) ==
  IF lineCap = "rounded" \/ endCap = "rounded" THEN "rounded" ELSE "flat"

radiusModifier(pulseProg) ==
  IF RLt(pulseProg, <<1, 2>>)
    THEN RNeg(RMul(pulseProg, Rat(2)))
    ELSE RAdd(Rat(-2), RMul(pulseProg, Rat(2)))

performRadiusPulse(s, p, level) ==
  LET pulsed(offset) ==
        RAdd(s.circleSize,
             RMul(RMul(radiusModifier(getProgressLinear(p, s.rest, offset)),
                       s.radiusPulse.intensity),
                  s.circleSize))
  IN  CASE s.radiusPulse.style = "coelesce" ->
             pulsed(RMul(s.radiusPulse.delay, Rat(level)))
        [] s.radiusPulse.style = "disperse" ->
             pulsed(RMul(s.radiusPulse.delay, Rat(s.sideLength - 1 - level)))
        [] OTHER -> s.circleSize

(* pulseProg < 0.5 ? -(pulseProg * 2) : -2 + pulseProg * 2 *)
opacityModifier(pulseProg) ==
  IF RLt(pulseProg, <<1, 2>>)
    THEN RNeg(RMul(pulseProg, Rat(2)))
    ELSE RAdd(Rat(-2), RMul(pulseProg, Rat(2)))

(* performOpacityPulse(level) on the colour string styleString *)
performOpacityPulse(s, p, level, styleString) ==
  LET pulsed(offset) ==
        ctxModifyOpacity(s.colours, styleString,
                         opacityModifier(getProgressLinear(p, s.rest, offset)))
  IN  CASE s.opacityPulse.style = "coelesce" ->
             pulsed(RMul(s.opacityPulse.delay, Rat(level)))
        [] s.opacityPulse.style = "disperse" ->
             pulsed(RMul(s.opacityPulse.delay, Rat(s.sideLength - 1 - level)))
        [] OTHER -> styleString

(* the colour of ring level in Sempiternal.draw: this.ctxSetColour(level),  *)
(* then this.performOpacityPulse(level) on the colour it has set            *)
ringColourKept(s, p, level) == performOpacityPulse(s, p, level, s.currColour)

ringColour(s, p, level) == performOpacityPulse(s, p, level, ctxSetColour(s, level))

----------------------------------------------------------------------------
(* Drawing: Lemniscate's geometry, and the section walk of Antiquum.draw    *)
(* and Lemniscate.drawArc                                                   *)

(* Irrational values are carried to two decimals *)
Grid == 100

(* the integer part of n * Grid / d *)
floorTimesGrid(n, d) == (n \div d) * Grid + ((n % d) * Grid) \div d

toGrid(x) == Norm(floorTimesGrid(x[1], x[2]), Grid)

(* the largest integer whose square is at most n, sought between lo and hi *)
RECURSIVE isqrt(_, _, _)
isqrt(n, lo, hi) ==
  IF lo >= hi THEN lo
  ELSE LET mid == (lo + hi + 1) \div 2
       IN  IF mid * mid <= n THEN isqrt(n, mid, hi) ELSE isqrt(n, lo, mid - 1)

(* Math.sqrt of x >= 0 *)
sqrt(x) ==
  LET rem == ((x[1] % x[2]) * Grid) % x[2]
      n == floorTimesGrid(x[1], x[2]) * Grid + (rem * Grid) \div x[2]
  IN  Norm(isqrt(n, 0, 46340), Grid)

Pi == <<157, 50>>

(* Math.atan of x >= 0 *)
RECURSIVE atan(_)
atan(x) ==
  IF RLe(x, One)
    THEN toGrid(RDiv(x, RAdd(One, RMul(<<7, 25>>, RMul(x, x)))))
    ELSE RSub(RDiv(Pi, Rat(2)), atan(RDiv(One, x)))

NaN == <<0, 0>>

(* a > b and a <= b on numbers: false when either is NaN *)
Greater(a, b) == a # NaN /\ b # NaN /\ RLt(b, a)
AtMost(a, b) == a # NaN /\ b # NaN /\ RLe(a, b)

(* The radius and xOff, among those explored, for which                     *)
(* b = 4 * a - 4 * (k_sq + 1) * (a - r), which is 0 in exact arithmetic, is *)
(* negative in double precision: -2.8e-14 for radius 5 and xOff 6.          *)
NegativeInDoubles == {<<Rat(5), Rat(6)>>}

(* the checkpoints of a geometry none of whose lengths is a number *)
NoCheckpoints == <<Zero, NaN, NaN, NaN, NaN, NaN, NaN, NaN, NaN, One>>

(* deriveGeometry: the slope k = Math.sqrt(r / (a - r)), which is a finite  *)
(* number (given by its square), Infinity or NaN, and the checkpoints       *)
deriveGeometry(radius, xOff) ==
  LET r == RMul(radius, radius)
      a == RMul(xOff, xOff)
      d == RSub(a, r)
  IN  CASE d = Zero ->       \* r / 0: Infinity, or NaN for 0 / 0
             [k |-> IF r = Zero THEN "NaN" ELSE "Infinity", k_sq |-> Zero,
              checkpoints |-> NoCheckpoints]
        [] RLt(d, Zero) ->   \* the square root of a negative number
             [k |-> "NaN", k_sq |-> Zero, checkpoints |-> NoCheckpoints]
        [] <<radius, xOff>> \in NegativeInDoubles ->   \* Math.sqrt(b) is NaN
             [k |-> "finite", k_sq |-> RDiv(r, d), checkpoints |-> NoCheckpoints]
        [] OTHER ->
             LET k_sq == RDiv(r, d)
                 k == sqrt(k_sq)
                 x_tan == RDiv(RMul(Rat(2), xOff), RMul(Rat(2), RAdd(k_sq, One)))
                 y_tan == RMul(k, x_tan)
                 dist_tan == sqrt(RAdd(RMul(x_tan, x_tan), RMul(y_tan, y_tan)))
                 theta == RSub(RDiv(Pi, Rat(2)), atan(RDiv(y_tan, x_tan)))
                 arc_proportion == RDiv(theta, Pi)
                 c == RMul(RMul(radius, Rat(2)), Pi)
                 dist_arc == RMul(arc_proportion, c)
                 t == RMul(dist_tan, <<1, 2>>)
                 half == RDiv(dist_arc, Rat(2))
                 total == RAdd(RAdd(RAdd(RAdd(t, dist_arc), RMul(t, Rat(2))), dist_arc), t)
                 at(len) == RDiv(len, total)
                 s1 == t
                 s3 == RAdd(t, dist_arc)
                 s5 == RAdd(s3, RMul(t, Rat(2)))
                 s7 == RAdd(s5, dist_arc)
             IN  [k |-> "finite", k_sq |-> k_sq,
                  checkpoints |->
                    <<Zero, at(s1), at(RAdd(s1, half)), at(s3), at(RAdd(s3, t)), at(s5),
                      at(RAdd(s5, half)), at(s7), at(RAdd(s7, t)), One>>]

(* the radius of the i-th arc's path, i from 0 *)
arcRadius(s, i) == RSub(s.radius, RMul(RMul(Rat(i), s.radiusDelta), s.radius))

(* the geometries the Lemniscate constructor derives *)
deriveGeometries(s) == [i \in 1..s.arcs |-> deriveGeometry(arcRadius(s, i - 1), s.xOff)]

(* getSection(prog, arc_i) on the arc's checkpoints; reading past the end   *)
(* of the array gives undefined, and no comparison with it holds            *)
RECURSIVE getSectionFrom(_, _, _)
getSectionFrom(prog, checkpoints, i) ==
  LET at(j) == IF j + 1 \in DOMAIN checkpoints THEN checkpoints[j + 1] ELSE Undefined
  IN  IF i >= Len(checkpoints) + 1 THEN -1
      ELSE IF Greater(prog, at(i)) /\ AtMost(prog, at(i + 1)) THEN i
      ELSE getSectionFrom(prog, checkpoints, i + 1)

getSection(prog, checkpoints) == getSectionFrom(prog, checkpoints, 0)

(* a middle section: the outer edge before the lead is drawn, the inner after *)
middleOrderOuter(hasDrawnLead) == "outer-mid"

middleOrder(hasDrawnLead) == IF hasDrawnLead THEN "inner-mid" ELSE "outer-mid"

StartWalk(tailSection) ==
  [currSection |-> tailSection, hasDrawnLead |-> FALSE, hasDrawnTail |-> FALSE,
   i |-> 0, path |-> << >>, broke |-> FALSE, commands |-> << >>, filled |-> FALSE]

(* the loop of Antiquum.draw over the three sections of one arc; w is the   *)
(* loop's state, path the section sub-paths drawn so far                    *)
RECURSIVE drawLoop(_, _, _, _)
drawLoop(tailSection, leadSection, leadAhead, w) ==
  IF w.i >= 6 THEN w
  ELSE IF tailSection = w.currSection /\ leadSection = w.currSection /\ leadAhead
    THEN [w EXCEPT !.path = Append(@, <<"contained", w.currSection>>), !.broke = TRUE]
  ELSE IF tailSection = w.currSection /\ w.hasDrawnLead
    THEN [w EXCEPT !.broke = TRUE]
  ELSE
    LET drawn ==
          IF tailSection = w.currSection /\ ~w.hasDrawnTail
            THEN [w EXCEPT !.hasDrawnTail = TRUE,
                           !.path = Append(@, <<"tail", w.currSection>>)]
          ELSE IF leadSection = w.currSection
            THEN [w EXCEPT !.hasDrawnLead = TRUE,
                           !.path = Append(@, <<"lead", w.currSection>>)]
          ELSE [w EXCEPT !.path = Append(@, <<middleOrder(w.hasDrawnLead), w.currSection>>)]
    IN  drawLoop(tailSection, leadSection, leadAhead,
                 [drawn EXCEPT !.currSection = IF drawn.hasDrawnLead
                                                 THEN JsRem(@ + 2, 3)
                                                 ELSE JsRem(@ + 1, 3),
                               !.i = @ + 1])

(* one iteration of the loop of Lemniscate.drawArc over the nSections       *)
(* sections of one arc                                                      *)
drawArcStep(tailSection, leadSection, nSections, w) ==
  IF w.currSection = tailSection /\ w.hasDrawnLead
    THEN [w EXCEPT !.broke = TRUE]
  ELSE
    LET drawn ==
          IF w.currSection = tailSection /\ ~w.hasDrawnTail
            THEN [w EXCEPT !.hasDrawnTail = TRUE,
                           !.path = Append(@, <<"tail", w.currSection>>)]
          ELSE IF w.currSection = leadSection
            THEN [w EXCEPT !.hasDrawnLead = TRUE,
                           !.path = Append(@, <<"lead", w.currSection>>)]
          ELSE [w EXCEPT !.path = Append(@, <<middleOrder(w.hasDrawnLead), w.currSection>>)]
    IN  [drawn EXCEPT !.currSection = IF drawn.hasDrawnLead
                                        THEN JsRem(@ + (nSections - 1), nSections)
                                        ELSE JsRem(@ + 1, nSections),
                      !.i = @ + 1]

(* up to steps iterations of the loop, stopping at its break *)
RECURSIVE drawArcSteps(_, _, _, _, _)
drawArcSteps(tailSection, leadSection, nSections, w, steps) ==
  IF steps = 1 THEN drawArcStep(tailSection, leadSection, nSections, w)
  ELSE LET half == drawArcSteps(tailSection, leadSection, nSections, w, steps \div 2)
       IN  IF half.broke THEN half
           ELSE drawArcSteps(tailSection, leadSection, nSections, half,
                             steps - steps \div 2)

(* for (let j = 0; j < 1000; j++) *)
drawArcLoop(tailSection, leadSection, nSections, w) ==
  drawArcSteps(tailSection, leadSection, nSections, w, 1000)

(* Lemniscate.drawArc from the sections of the tail and the lead on *)
drawArc(tailSection, leadSection, leadAhead, nSections) ==
  IF tailSection = leadSection /\ leadAhead
    THEN [StartWalk(tailSection) EXCEPT !.path = <<<<"contained", tailSection>>>>,
                                        !.broke = TRUE]
    ELSE drawArcLoop(tailSection, leadSection, nSections, StartWalk(tailSection))

(* The canvas commands of a path. A point is named by whose it is and by    *)
(* its side; a curve is drawn from the canvas's current point to its end,   *)
(* with control points computed from the start the code passes.             *)
MoveTo(p) == [cmd |-> "moveTo", from |-> <<"", "">>, to |-> p]
LineTo(p) == [cmd |-> "lineTo", from |-> <<"", "">>, to |-> p]
CurveTo(from, to) == [cmd |-> "bezierCurveTo", from |-> from, to |-> to]

(* sectionBounds[j] of Antiquum *)
BoundNames == <<"b0", "b1", "b2", "b3", "b4", "b5", "b6", "b7">>
sectionBounds(j, side) == <<BoundNames[j + 1], side>>

(* progressPosition at checkpoints[j] of a Lemniscate: the position at the  *)
(* last checkpoint (progress 1) is the one at progress 0 with inner and     *)
(* outer exchanged                                                          *)
progressPosition(j, side) ==
  IF j = 8
    THEN <<"b0", IF side = "inner" THEN "outer" ELSE "inner">>
    ELSE <<BoundNames[j + 1], side>>

tailCapCommands(s) ==
  IF capDrawn(s.lineCap, s.tailCap) = "rounded"
    THEN <<CurveTo(<<"tail", "inner">>, <<"tailGuide", "mid">>), CurveTo(<<"tailGuide", "mid">>, <<"tail", "outer">>)>>
    ELSE <<LineTo(<<"tail", "outer">>)>>

leadCapCommands(s) ==
  IF capDrawn(s.lineCap, s.leadCap) = "rounded"
    THEN <<CurveTo(<<"lead", "outer">>, <<"leadGuide", "mid">>), CurveTo(<<"leadGuide", "mid">>, <<"lead", "inner">>)>>
    ELSE <<LineTo(<<"lead", "inner">>)>>

drawContainedArc(s) ==
  <<MoveTo(<<"lead", "inner">>), CurveTo(<<"lead", "inner">>, <<"tail", "inner">>)>>
    \o tailCapCommands(s)
    \o <<CurveTo(<<"tail", "outer">>, <<"lead", "outer">>)>>
    \o leadCapCommands(s)

drawLeadArcSection(s, bound) ==
  <<CurveTo(sectionBounds(bound, "outer"), <<"lead", "outer">>)>>
    \o leadCapCommands(s)
    \o <<CurveTo(<<"lead", "inner">>, sectionBounds(bound, "inner"))>>

drawMiddleArcSection(bound_1, bound_2, hasDrawnLead) ==
  IF hasDrawnLead
    THEN <<CurveTo(sectionBounds(bound_2, "inner"), sectionBounds(bound_1, "inner"))>>
    ELSE <<CurveTo(sectionBounds(bound_1, "outer"), sectionBounds(bound_2, "outer"))>>

drawTailArcSection(s, bound) ==
  <<MoveTo(sectionBounds(bound, "inner")), CurveTo(sectionBounds(bound, "inner"), <<"tail", "inner">>)>>
    \o tailCapCommands(s)
    \o <<CurveTo(<<"tail", "outer">>, sectionBounds(bound, "outer"))>>

(* the commands of one step of the walk of Antiquum.draw *)
antiquumCommands(s, order, currSection) ==
  CASE order = "contained" -> drawContainedArc(s)
    [] order = "tail" -> drawTailArcSection(s, JsRem(currSection + 1, 3))
    [] order = "lead" -> drawLeadArcSection(s, currSection)
    [] OTHER -> drawMiddleArcSection(currSection, JsRem(currSection + 1, 3),
                                     order = "inner-mid")

(* draw_NW_Line, draw_SW_Line, draw_NE_Line between the bounds lower, upper *)
drawLine(order, lower, upper) ==
  CASE order = "contained" ->
         <<MoveTo(<<"tail", "inner">>), LineTo(<<"tail", "outer">>), LineTo(<<"lead", "outer">>),
           LineTo(<<"lead", "inner">>), LineTo(<<"tail", "inner">>)>>
    [] order = "tail" ->
         <<MoveTo(progressPosition(upper, "inner")), LineTo(<<"tail", "inner">>),
           LineTo(<<"tail", "outer">>), LineTo(progressPosition(upper, "outer"))>>
    [] order = "outer-mid" -> <<LineTo(progressPosition(upper, "outer"))>>
    [] order = "lead" ->
         <<LineTo(<<"lead", "outer">>), LineTo(<<"lead", "inner">>),
           LineTo(progressPosition(lower, "inner"))>>
    [] order = "inner-mid" -> <<LineTo(progressPosition(lower, "inner"))>>

(* draw_NW_Arc, draw_SW_Arc, draw_NE_Arc, draw_SE_Arc *)
drawCirc(order, lower, upper) ==
  CASE order = "contained" ->
         <<MoveTo(<<"tail", "inner">>), LineTo(<<"tail", "outer">>),
           CurveTo(<<"tail", "outer">>, <<"lead", "outer">>), LineTo(<<"lead", "inner">>),
           CurveTo(<<"lead", "inner">>, <<"tail", "inner">>)>>
    [] order = "tail" ->
         <<MoveTo(progressPosition(upper, "inner")),
           CurveTo(progressPosition(upper, "inner"), <<"tail", "inner">>),
           LineTo(<<"tail", "outer">>),
           CurveTo(<<"tail", "outer">>, progressPosition(upper, "outer"))>>
    [] order = "outer-mid" ->
         <<CurveTo(progressPosition(lower, "outer"), progressPosition(upper, "outer"))>>
    [] order = "lead" ->
         <<CurveTo(progressPosition(lower, "outer"), <<"lead", "outer">>),
           LineTo(<<"lead", "inner">>),
           CurveTo(<<"lead", "inner">>, progressPosition(lower, "inner"))>>
    [] order = "inner-mid" ->
         <<CurveTo(progressPosition(upper, "inner"), progressPosition(lower, "inner"))>>

draw_SE_Line(order, lower, upper) ==
  CASE order = "contained" ->
         <<MoveTo(<<"tail", "inner">>), LineTo(<<"tail", "outer">>), LineTo(<<"lead", "outer">>),
           LineTo(<<"lead", "inner">>), LineTo(<<"tail", "inner">>)>>
    [] order = "tail" ->
         <<MoveTo(progressPosition(upper, "inner")), LineTo(<<"tail", "inner">>),
           LineTo(<<"tail", "outer">>), LineTo(progressPosition(upper, "outer")),
           MoveTo(progressPosition(upper, "inner"))>>
    [] order = "outer-mid" -> <<LineTo(progressPosition(upper, "inner"))>>
    [] order = "lead" ->
         <<LineTo(<<"lead", "inner">>), LineTo(<<"lead", "outer">>),
           LineTo(progressPosition(lower, "inner"))>>
    [] order = "inner-mid" -> <<LineTo(progressPosition(lower, "inner"))>>

(* drawSection(section, order): a section that is none of the eight draws   *)
(* nothing                                                                  *)
drawSection(section, order) ==
  CASE section \in {0, 3, 4} -> drawLine(order, section, section + 1)
    [] section \in {1, 2, 5, 6} -> drawCirc(order, section, section + 1)
    [] section = 7 -> draw_SE_Line(order, section, section + 1)
    [] OTHER -> << >>

(* the canvas commands of the steps path[lo..hi] of a walk *)
RECURSIVE pathCommands(_, _, _, _)
pathCommands(s, path, lo, hi) ==
  IF lo > hi THEN << >>
  ELSE IF lo = hi
    THEN IF s.preset = "Antiquum"
           THEN antiquumCommands(s, path[lo][1], path[lo][2])
           ELSE drawSection(path[lo][2], path[lo][1])
  ELSE LET mid == (lo + hi) \div 2
       IN  pathCommands(s, path, lo, mid) \o pathCommands(s, path, mid + 1, hi)

(* this.ctxDraw() after the walk: the path is filled or stroked *)
ctxDraw(s, w) ==
  [w EXCEPT !.commands = pathCommands(s, w.path, 1, Len(w.path)), !.filled = TRUE]

----------------------------------------------------------------------------
(* Drawing: one instance, constructed with some options, and the drawing    *)
(* calls made on it                                                         *)

(* the defaults the constructors set (on a 100 x 100 canvas) *)
DefaultSelf(preset) ==
  [preset |-> preset,
   rest |-> Zero, timingFunction |-> "sinusoidal",
   customTimingFunction |-> "getProgressLinear",
   colours |-> <<"#000000">>, opacity |-> One, opacityDelta |-> Zero,
   currColour |-> "", strokeStyle |-> "", fillStyle |-> "",
   arcs |-> 1, arcWidth |-> Rat(10),
   arcWidthDelta |-> IF preset = "Antiquum" THEN <<1, 50>> ELSE Zero,
   arcAnchor |-> "centre",
   radius |-> IF preset = "Antiquum" THEN Rat(40) ELSE <<25, 2>>,
   radiusDelta |-> Zero,
   lineCap |-> "rounded", leadCap |-> "null", tailCap |-> "null",
   sideLength |-> 3, circleSize |-> <<25, 2>>,
   radiusPulse |-> [style |-> "off", delay |-> <<1, 10>>, intensity |-> One],
   opacityPulse |-> [style |-> "off", delay |-> <<1, 10>>, intensity |-> One],
   xOff |-> Rat(25),
   tailDelay |-> IF preset = "Lemniscate" THEN <<1, 5>> ELSE <<1, 4>>,
   arcDelay |-> <<1, 10>>,
   geometries |-> << >>]

(* the options given to the constructor are stored over the defaults; a     *)
(* customTimingFunction that is not given leaves the default one            *)
Configured(preset, ops) ==
  LET d == DefaultSelf(preset)
      set == [f \in DOMAIN d |-> IF f \in DOMAIN ops THEN ops[f] ELSE d[f]]
      x == IF preset = "Lemniscate" /\ "xOff" \notin DOMAIN ops
             THEN [set EXCEPT !.xOff = RMul(set.radius, Rat(2))]
             ELSE set
  IN  IF preset = "Lemniscate" THEN [x EXCEPT !.geometries = deriveGeometries(x)] ELSE x

TimingFunctions == {"linear", "sinusoidal", "quadratic", "cubic", "custom", "bounce"}
RestValues == {Zero, <<1, 2>>}
ProgressValues == {Zero, <<1, 3>>, <<1, 2>>, <<2, 3>>, One}
OffsetValues == {Undefined, Zero, <<1, 6>>, <<-1, 2>>, <<-3, 2>>, <<-5, 2>>, Rat(3)}
ColourIndexes == {-3, -1, 0, 1, 2}
SectionPairs(n) == (0..(n - 1)) \X (0..(n - 1)) \X BOOLEAN

EasingOps ==
  {[timingFunction |-> t, rest |-> r] : t \in TimingFunctions, r \in RestValues}
    \cup {[timingFunction |-> "custom", customTimingFunction |-> "user", rest |-> r] :
            r \in RestValues}

ColourOps ==
  {[colours |-> c, opacity |-> o, opacityDelta |-> d] :
     c \in {<<"#ff0000">>, <<"#ff0000", "#00ff00">>},
     o \in {One, <<1, 2>>, <<1, 10>>, Rat(2)},
     d \in {Zero, <<1, 2>>, <<-1, 2>>}}

AntiquumDrawOps ==
  {[arcAnchor |-> a, lineCap |-> c, leadCap |-> l, arcs |-> 2] :
     a \in {"centre", "inner", "outer", "middle"},
     c \in {"flat", "rounded", "square"},
     l \in {"null", "rounded", "square"}}

(* widths and deltas, up to over-large ones *)
AntiquumWidthOps ==
  {[arcAnchor |-> a, arcs |-> 3, arcWidth |-> w, arcWidthDelta |-> d, radiusDelta |-> rd] :
     a \in {"centre", "inner", "outer"},
     w \in {Rat(10), Rat(50)},
     d \in {<<1, 50>>, <<1, 2>>, One},
     rd \in {Zero, <<1, 2>>, One}}

SempiternalDrawOps ==
  {[radiusPulse |-> [style |-> st, delay |-> <<1, 10>>, intensity |-> i]] :
     st \in {"off", "coelesce", "disperse", "throb"}, i \in {One, Rat(2)}}

SempiternalOpacityOps ==
  {[opacityPulse |-> [style |-> st, delay |-> <<1, 10>>, intensity |-> One],
    opacity |-> o, colours |-> c] :
     st \in {"off", "coelesce", "disperse"},
     o \in {One, <<1, 2>>},
     c \in {<<"#ff0000">>, <<"#ff0000", "#00ff00">>}}

LemniscateDrawOps ==
  {[radius |-> Rat(2), xOff |-> Rat(x), arcs |-> n, radiusDelta |-> d] :
     x \in {1, 2, 3}, n \in {1, 2}, d \in {Zero, <<-1, 1>>}}
    \cup {[radius |-> Rat(2)], [radius |-> Rat(3), xOff |-> Rat(5)],
          [radius |-> Rat(5), xOff |-> Rat(6)], << >>}

SetOpsValues == {[xOff |-> Rat(1)], [radius |-> Rat(3)]}

(* the progress values explored with the options ops: all of them where the *)
(* options are about timing                                                 *)
ProgressFor(ops) ==
  IF ops \in EasingOps \cup SempiternalDrawOps \cup SempiternalOpacityOps
    THEN ProgressValues
    ELSE {Zero}

DrawOps(preset) ==
  CASE preset = "Antiquum" ->
         EasingOps \cup ColourOps \cup AntiquumDrawOps \cup AntiquumWidthOps
    [] preset = "Sempiternal" -> SempiternalDrawOps \cup SempiternalOpacityOps
    [] preset = "Lemniscate" -> LemniscateDrawOps

Call(op, arg, outcome) ==
  [op |-> op, arg |-> arg, thrown |-> outcome.thrown, value |-> outcome.value]

InitDraw ==
  /\ Constructed
  /\ inst = << >>
  /\ heap = << >>
  /\ last = Quiet("new")
  /\ \E preset \in Presets : \E ops \in DrawOps(preset) :
       /\ self = Configured(preset, ops)
       /\ currProgress \in ProgressFor(ops)
  /\ ret = Call("new", 0, Returned(Zero))

(* this.getProgress(offset) *)
GetProgress(offset) ==
  /\ self.timingFunction = "sinusoidal" =>
       SinGrid(RSub(rested(offsetProgress(currProgress, offset), self.rest), <<1, 2>>))
  /\ ret' = Call("getProgress", offset, getProgress(self, currProgress, offset))
  /\ UNCHANGED <<still, currProgress, self>>

(* this.ctxSetColour(offset) *)
CtxSetColour(offset) ==
  LET colour == ctxSetColour(self, offset)
  IN  /\ self' = [self EXCEPT !.strokeStyle = colour, !.fillStyle = colour,
                              !.currColour = colour]
      /\ ret' = Call("ctxSetColour", offset, Returned(colour))
      /\ UNCHANGED <<still, currProgress>>

(* the offsets Antiquum.draw calculates for the arc_i-th arc *)
CalculateOffsets(arc_i) ==
  /\ self.preset = "Antiquum"
  /\ arc_i < self.arcs
  /\ ret' = Call("calculateOffsets", arc_i,
                 calculateOffsets(self, arc_i, arcWidthDiff(self, arc_i)))
  /\ UNCHANGED <<still, currProgress, self>>

(* the caps Antiquum draws at the lead and at the tail of an arc *)
DrawCaps ==
  /\ self.preset = "Antiquum"
  /\ ret' = Call("drawCaps", 0,
                 Returned([lead |-> capDrawn(self.lineCap, self.leadCap),
                           tail |-> capDrawn(self.lineCap, self.tailCap)]))
  /\ UNCHANGED <<still, currProgress, self>>

(* this.performRadiusPulse(level) in Sempiternal.draw *)
PerformRadiusPulse(level) ==
  /\ self.preset = "Sempiternal"
  /\ level < self.sideLength
  /\ ret' = Call("performRadiusPulse", level,
                 Returned(performRadiusPulse(self, currProgress, level)))
  /\ UNCHANGED <<still, currProgress, self>>

(* the colouring of ring level in a frame of Sempiternal.draw *)
DrawRing(level) ==
  /\ self.preset = "Sempiternal"
  /\ level < self.sideLength
  /\ LET colour == ringColour(self, currProgress, level)
     IN  /\ self' = [self EXCEPT !.strokeStyle = colour, !.fillStyle = colour,
                                 !.currColour = colour]
         /\ ret' = Call("drawRing", level, Returned(colour))
  /\ UNCHANGED <<still, currProgress>>

(* setConfig({currProgress: p}): the next frame is drawn at progress p *)
SetCurrProgress(p) ==
  /\ self.preset = "Sempiternal"
  /\ currProgress' = p
  /\ ret' = Call("setConfig", p, Returned(Zero))
  /\ UNCHANGED <<still, self>>

(* this.getSection(prog, arc_i) of a Lemniscate *)
GetSection(prog, arc_i) ==
  /\ self.preset = "Lemniscate"
  /\ arc_i < Len(self.geometries)
  /\ ret' = Call("getSection", <<prog, arc_i>>,
                 Returned(getSection(prog, self.geometries[arc_i + 1].checkpoints)))
  /\ UNCHANGED <<still, currProgress, self>>

(* lemniscate.setOps(ops): every key of ops is assigned *)
SetOps(ops) ==
  /\ self.preset = "Lemniscate"
  /\ self' = [f \in DOMAIN self |-> IF f \in DOMAIN ops THEN ops[f] ELSE self[f]]
  /\ ret' = Call("setOps", 0, Returned(Zero))
  /\ UNCHANGED <<still, currProgress>>

(* the section walk of one arc in Antiquum.draw, and the drawing of its path *)
Draw(tailSection, leadSection, leadAhead) ==
  /\ self.preset = "Antiquum"
  /\ ret' = Call("draw", <<tailSection, leadSection, leadAhead>>,
                 Returned(ctxDraw(self, drawLoop(tailSection, leadSection, leadAhead,
                                                 StartWalk(tailSection)))))
  /\ UNCHANGED <<still, currProgress, self>>

(* the section walk of one arc in Lemniscate.drawArc, and the drawing of    *)
(* its path, from the sections of its tail and its lead                     *)
DrawArc(tailSection, leadSection, leadAhead) ==
  /\ self.preset = "Lemniscate"
  /\ ret' = Call("drawArc", <<tailSection, leadSection, leadAhead>>,
                 Returned(ctxDraw(self, drawArc(tailSection, leadSection, leadAhead, 8))))
  /\ UNCHANGED <<still, currProgress, self>>

(* lemniscate.drawArc(arc_i) at the current progress *)
DrawArcAtProgress(arc_i) ==
  /\ self.preset = "Lemniscate"
  /\ self.timingFunction = "linear"
  /\ arc_i < self.arcs
  /\ arc_i < Len(self.geometries)
  /\ LET offset == RMul(self.arcDelay, Rat(arc_i))
         lp == getProgress(self, currProgress, offset).value
         tp == getProgress(self, currProgress, RSub(offset, self.tailDelay)).value
         checkpoints == self.geometries[arc_i + 1].checkpoints
         leadSection == getSection(lp, checkpoints)
         tailSection == getSection(tp, checkpoints)
     IN  ret' = Call("drawArc", <<tailSection, leadSection, RLt(tp, lp)>>,
                     Returned(ctxDraw(self, drawArc(tailSection, leadSection, RLt(tp, lp),
                                                    Len(checkpoints) - 2))))
  /\ UNCHANGED <<still, currProgress, self>>

NextDraw ==
  \/ \E offset \in OffsetValues : GetProgress(offset)
  \/ \E offset \in ColourIndexes : CtxSetColour(offset)
  \/ \E arc_i \in 0..2 : CalculateOffsets(arc_i)
  \/ DrawCaps
  \/ \E level \in 0..2 : PerformRadiusPulse(level)
  \/ \E ops \in SetOpsValues : SetOps(ops)
  \/ \E prog \in ProgressValues, arc_i \in 0..1 : GetSection(prog, arc_i)
  \/ \E level \in 0..2 : DrawRing(level)
  \/ \E p \in ProgressValues : SetCurrProgress(p)

SpecDraw == InitDraw /\ [][NextDraw]_vars

(* the section walks alone, on an Antiquum with rounded or flat caps and on *)
(* a Lemniscate of one or two arcs                                         *)
InitWalk ==
  /\ Constructed
  /\ currProgress \in ProgressValues
  /\ inst = << >>
  /\ heap = << >>
  /\ last = Quiet("new")
  /\ \/ \E ops \in {<< >>, [lineCap |-> "flat"]} : self = Configured("Antiquum", ops)
     \/ \E ops \in {<< >>, [timingFunction |-> "linear"],
                     [timingFunction |-> "linear", arcs |-> 2],
                     [timingFunction |-> "linear", radius |-> Rat(5), xOff |-> Rat(6)]} :
          self = Configured("Lemniscate", ops)
  /\ ret = Call("new", 0, Returned(Zero))

NextWalk ==
  \/ \E w \in SectionPairs(3) : Draw(w[1], w[2], w[3])
  \/ \E w \in SectionPairs(8) : DrawArc(w[1], w[2], w[3])
  \/ \E arc_i \in 0..1 : DrawArcAtProgress(arc_i)

SpecWalk == InitWalk /\ [][NextWalk]_vars

----------------------------------------------------------------------------
(* Properties of the progress clock *)

InUnitInterval(p) == RLe(Zero, p) /\ RLe(p, One)

Moved == last.op \in {"seek", "step"} \/ (last.op = "animate" /\ last.drew)

Sought == last.op \in {"seek", "step"}

C2_SeekWrapsAroundFrames ==
  LET N == Norm(fps * cycleDuration_ms, 1000)
      f == RMul(last.prevProgress, N)
      g == RMul(currProgress, N)
  IN  (Sought /\ paused /\ N[2] = 1 /\ f[2] = 1 /\ InUnitInterval(last.prevProgress))
        => /\ g[2] = 1
           /\ g[1] % N[1] = (f[1] + last.arg) % N[1]

C4_SeekRoundTrip ==
  LET p == last.beforeProgress
      mid == RAdd(p, RMul(Rat(last.beforeArg), progressPerFrame(fps, cycleDuration_ms)))
  IN  (/\ Sought
       /\ last.beforeOp \in {"seek", "step"}
       /\ last.arg = -last.beforeArg
       /\ InUnitInterval(p)
       /\ InUnitInterval(mid))
        => currProgress = p

(* C5: after a pause at t1 and a play at t2, with no seek or setConfig in   *)
(* between, a drawn tick at time t shows the progress the clock as it was   *)
(* at the pause would have shown at time t - (t2 - t1).                     *)
C5_ResumeDoesNotJump ==
  (last.op = "animate" /\ last.drew /\ resume.phase = "resumed")
    => currProgress =
         Norm(modulo((now - (resume.t2 - resume.t1)) - resume.pd - start,
                     cycleDuration_ms), cycleDuration_ms)

(* C6: whenever the animation is not paused, pauseDuration is the number of *)
(* milliseconds it has spent paused so far.                                 *)
C6_PauseDurationIsTimePaused == ~paused => pauseDuration = pausedTotal

(* C7: pause() on an animation that pause() has already paused changes      *)
(* nothing of the clock state; play() always leaves paused = FALSE and      *)
(* pause() paused = TRUE.                                                   *)
C7_PauseIdempotent ==
  [][/\ (last'.op = "pause" /\ paused /\ resume.phase = "paused")
          => UNCHANGED <<paused, pauseTimestamp, pauseDuration, currProgress>>
     /\ last'.op = "pause" => paused'
     /\ last'.op = "play" => ~paused']_vars

(* C8: between two consecutive drawn ticks, with no call in between, one    *)
(* crossed multiple of cycleDuration_ms adds exactly 1 to currIteration and *)
(* lowers currProgress; no crossed multiple leaves currIteration alone.     *)
C8_WrapCountsCrossing ==
  (last.op = "animate" /\ last.drew) =>
    /\ last.crossings = 1 =>
         /\ currIteration = last.prevIteration + 1
         /\ RLt(currProgress, last.prevProgress)
    /\ last.crossings = 0 => currIteration = last.prevIteration

FreshProgress == Norm(modulo(now - pauseDuration - start, cycleDuration_ms), cycleDuration_ms)

StopsAtCap ==
  /\ (last.op = "animate" /\ last.drew /\ currIteration # last.prevIteration)
       => /\ currIteration = last.prevIteration + 1
          /\ RLe(nIterations, Rat(currIteration)) => (paused /\ last.stopped)
  /\ (last.op = "animate" /\ last.stopped)
       => /\ paused
          /\ currProgress = FreshProgress
          /\ pristine => Rat(currIteration) = nIterations

(* C9, as stated: the tick that detects the n-th wraparound pauses the      *)
(* animation with currIteration = n and the freshly computed currProgress,  *)
(* and from then on no animate tick draws or counts until play() is called. *)
C9_CapHaltsUntilPlay ==
  /\ StopsAtCap
  /\ (last.op = "animate" /\ last.prevHalted # "no")
       => (~last.drew /\ currIteration = last.prevIteration)

(* C9, amended: the same, the halt lasting until play() is called or        *)
(* setConfig sets paused to false.                                          *)
C9_CapHaltsUntilResumed ==
  /\ StopsAtCap
  /\ (last.op = "animate" /\ last.prevHalted = "cap")
       => (~last.drew /\ currIteration = last.prevIteration
             /\ currProgress = last.prevProgress)

C9_Witness ==
  /\ last.op = "animate"
  /\ last.prevHalted = "cap"
  /\ pristine
  /\ paused
  /\ nIterations[2] = 1
  /\ Rat(currIteration) = nIterations
  /\ now - pauseDuration - start > cycleDuration_ms
  /\ currProgress # Zero

(* C10: mutate() runs once every mutationInterval * cycleDuration_ms        *)
(* milliseconds, inside a drawn animate tick, and never when                *)
(* mutationInterval is Infinity.                                            *)
C10_MutateEveryIntervalCycles ==
  (last.op = "animate" /\ last.mutated) =>
    /\ last.drew
    /\ mutationInterval # Infinity
    /\ RLe(RMul(mutationInterval, Rat(cycleDuration_ms)), Rat(last.mutationDelta))

(* C11: an animate tick that runs while paused, or less than 1000/fps ms    *)
(* after lastDraw, changes none of currProgress, lastProgress,              *)
(* currIteration, lastDraw and lastMutationTimestamp and calls neither      *)
(* mutate() nor draw(); two draws issued by animate are never less than     *)
(* 1000/fps ms apart; a paused tick does not request another frame, a       *)
(* throttled one does.                                                      *)
C11_ThrottledOrPausedTickIsNoOp ==
  [][last'.op = "animate" =>
       /\ (paused \/ RLt(Rat(now - lastDraw), <<1000, fps>>))
            => /\ UNCHANGED <<currProgress, lastProgress, currIteration, lastDraw,
                              lastMutationTimestamp>>
               /\ ~last'.drew
               /\ ~last'.mutated
       /\ paused => pending' = pending - 1
       /\ ~paused => pending' = pending
       /\ (last'.drew /\ drawTime >= 0)
            => RLe(<<1000, fps'>>, Rat(now' - drawTime))]_vars

C11_Witness ==
  /\ last.op = "animate"
  /\ ~last.drew
  /\ ~paused
  /\ drawTime >= 0
  /\ lastDraw = drawTime
  /\ now = drawTime + 1

(* C12: for every preset, setConfig(partial), and the constructor given the *)
(* same partial options, sets each supplied field (base options and the     *)
(* preset's own) to exactly the supplied value, and leaves every omitted    *)
(* field at its prior value (the default, for the constructor).             *)
C12_SetConfigStoresSuppliedFields ==
  last.op \in {"new", "setConfig"} =>
    \A f \in DOMAIN inst[last.target].fields :
      inst[last.target].fields[f] =
        IF f \in DOMAIN last.ops THEN last.ops[f] ELSE last.before[f]

(* what the fields of instance j show: a reference shows the object it      *)
(* refers to                                                                *)
Shown(j, in, hp) ==
  [f \in DOMAIN in[j].fields |->
     IF in[j].fields[f].kind = "ref"
       THEN [kind |-> "object", n |-> hp[in[j].fields[f].n]]
       ELSE in[j].fields[f]]

(* C19: no operation on, or field mutation of, one instance changes what    *)
(* any field of another instance shows, also when both were constructed or  *)
(* configured from the same options object.                                 *)
C19_InstancesShareNothing ==
  [][\A j \in DOMAIN inst :
       last'.target # j => Shown(j, inst', heap') = Shown(j, inst, heap)]_vars

BuiltIn == {"linear", "quadratic", "cubic", "sinusoidal"}

(* C13: an unrecognized arcAnchor, line-cap value, timingFunction or pulse  *)
(* style makes the call that uses it throw, and so does timingFunction =    *)
(* "custom" when no custom function was supplied; with a custom function    *)
(* supplied, getProgress returns exactly its result.                        *)
C13_ConfigurationErrorsThrow ==
  /\ (ret.op = "calculateOffsets" /\ self.arcAnchor \notin {"inner", "centre", "outer"})
       => ret.thrown
  /\ (ret.op = "drawCaps"
        /\ (self.lineCap \notin {"flat", "rounded"}
              \/ self.leadCap \notin {"flat", "rounded", "null"}
              \/ self.tailCap \notin {"flat", "rounded", "null"}))
       => ret.thrown
  /\ (ret.op = "getProgress" /\ self.timingFunction \notin BuiltIn \cup {"custom"})
       => ret.thrown
  /\ (ret.op = "performRadiusPulse"
        /\ self.radiusPulse.style \notin {"disperse", "coelesce", "off"})
       => ret.thrown
  /\ (ret.op = "getProgress" /\ self.timingFunction = "custom")
       => IF self.customTimingFunction = "user"
            THEN ~ret.thrown /\ ret.value = UserResult
            ELSE ret.thrown

(* C14: a Lemniscate constructed or reconfigured with xOff less than or     *)
(* equal to the radius of one of its arcs fails with an error, and never    *)
(* holds a geometry whose slope is NaN or infinite.                         *)
C14_LemniscateRejectsSmallXOff ==
  (self.preset = "Lemniscate" /\ ret.op \in {"new", "setOps"}
     /\ \E i \in 0..(self.arcs - 1) : RLe(self.xOff, arcRadius(self, i)))
    => /\ ret.thrown
       /\ \A g \in 1..Len(self.geometries) : self.geometries[g].k = "finite"

(* the fractional part of x, never negative *)
FractionalPart(x) == Norm(x[1] % x[2], x[2])

(* C15: for currProgress in [0,1], rest in [0,1) and any offset, each       *)
(* built-in easing returns a value in [0,1], a given offset being applied   *)
(* as (currProgress + 1 + offset) mod 1, which is never negative.           *)
C15_EasingStaysInUnitInterval ==
  (ret.op = "getProgress" /\ self.timingFunction \in BuiltIn
     /\ InUnitInterval(currProgress) /\ RLe(Zero, self.rest) /\ RLt(self.rest, One))
    => /\ ~ret.thrown
       /\ InUnitInterval(ret.value)
       /\ (self.timingFunction = "linear" /\ Truthy(ret.arg))
            => ret.value =
                 RMin(One, RDiv(FractionalPart(RAdd(RAdd(currProgress, One), ret.arg)),
                                RSub(One, self.rest)))

TwoHexDigits(n) == HexDigits[(n \div 16) + 1] \o HexDigits[(n % 16) + 1]

(* C17: for any opacity, opacityDelta and integer index, ctxSetColour(index)*)
(* sets strokeStyle, fillStyle and currColour to colours[index mod length]  *)
(* followed by the two lowercase hex digits of                              *)
(* floor(clamp(0, opacity - (length - 1 - index mod length) * opacityDelta, *)
(* 1) * 255): a string of 9 characters.                                     *)
C17_ColourHasTwoDigitAlpha ==
  ret.op = "ctxSetColour" =>
    LET n == Len(self.colours)
        i == ret.arg % n
        o == RSub(self.opacity, RMul(Rat(n - 1 - i), self.opacityDelta))
        alpha == (RMax(Zero, RMin(One, o))[1] * 255) \div RMax(Zero, RMin(One, o))[2]
        colour == self.colours[i + 1] \o TwoHexDigits(alpha)
    IN  /\ self.strokeStyle = colour
        /\ self.fillStyle = colour
        /\ self.currColour = colour
        /\ Len(self.currColour) = 9

(* C18, as stated: with colours = ["#ff0000"] and opacityDelta = 0,         *)
(* ctxSetColour yields "#ff0000ff" for opacity = 1 and "#ff000080" for      *)
(* opacity = 0.5.                                                           *)
C18_HalfOpacityIs80 ==
  (ret.op = "ctxSetColour" /\ self.colours = <<"#ff0000">> /\ self.opacityDelta = Zero)
    => /\ self.opacity = One => self.currColour = "#ff0000ff"
       /\ self.opacity = <<1, 2>> => self.currColour = "#ff000080"

(* C18, amended: with colours = ["#ff0000"] and opacityDelta = 0,           *)
(* ctxSetColour yields "#ff0000ff" for opacity = 1 and "#ff00007f" for      *)
(* opacity = 0.5, 127 being the floor of 0.5 * 255.                         *)
C18_HalfOpacityIs7f ==
  (ret.op = "ctxSetColour" /\ self.colours = <<"#ff0000">> /\ self.opacityDelta = Zero)
    => /\ self.opacity = One =>
            (self.currColour = "#ff0000ff" /\ self.strokeStyle = "#ff0000ff"
               /\ self.fillStyle = "#ff0000ff")
       /\ self.opacity = <<1, 2>> =>
            (self.currColour = "#ff00007f" /\ self.strokeStyle = "#ff00007f"
               /\ self.fillStyle = "#ff00007f")

C18_Witness ==
  /\ ret.op = "ctxSetColour"
  /\ self.colours = <<"#ff0000">>
  /\ self.opacityDelta = Zero
  /\ self.opacity = <<1, 2>>
  /\ self.currColour = "#ff00007f"

(* the sub-paths the walk is to draw from tail section t to lead section l  *)
(* of n sections when the arc is not contained in one section               *)
ExpectedPath(t, l, n) ==
  LET d == IF t = l THEN n ELSE (l - t) % n
  IN  <<<<"tail", t>>>>
        \o [k \in 1..(d - 1) |-> <<"outer-mid", (t + k) % n>>]
        \o <<<<"lead", l>>>>
        \o [k \in 1..(d - 1) |-> <<"inner-mid", (l - k) % n>>]

(* C20: in the non-contained case, between a tail section and a lead        *)
(* section, the section walk of Antiquum (3 sections) and of Lemniscate     *)
(* (8 sections) draws the tail sub-path once, the outer                     *)
(* edge of each section between tail and lead going forward, the lead       *)
(* sub-path once, the inner edge of the same sections going backward, and   *)
(* ends back at the tail section, with at most 2n sub-paths.                *)
C20_WalkOrder ==
  (/\ ret.op \in {"draw", "drawArc"}
   /\ ret.arg[1] >= 0 /\ ret.arg[2] >= 0
   /\ ~(ret.arg[1] = ret.arg[2] /\ ret.arg[3]))
    => LET n == IF ret.op = "draw" THEN 3 ELSE 8
       IN  /\ ret.value.path = ExpectedPath(ret.arg[1], ret.arg[2], n)
           /\ ret.value.currSection = ret.arg[1]
           /\ ret.value.hasDrawnTail /\ ret.value.hasDrawnLead
           /\ Len(ret.value.path) <= 2 * n

C20_Witness ==
  /\ ret.op = "drawArc"
  /\ ret.arg = <<6, 1, TRUE>>
  /\ ret.value.path = << <<"tail", 6>>, <<"outer-mid", 7>>, <<"outer-mid", 0>>,
                        <<"lead", 1>>, <<"inner-mid", 0>>, <<"inner-mid", 7>> >>

(* C26: at any time at most one animate callback of the instance is         *)
(* registered with the frame scheduler.                                     *)
C26_AtMostOneCallback == pending <= 1

C24_OffsetsOrdered ==
  (ret.op = "calculateOffsets" /\ self.arcAnchor \in {"inner", "centre", "outer"})
    => /\ ~ret.thrown
       /\ RLe(Zero, ret.value.inner)
       /\ RLe(ret.value.inner, ret.value.mid)
       /\ RLe(ret.value.mid, ret.value.outer)

(* C27: after construction and after any reconfiguration, a Lemniscate's    *)
(* geometries has one entry per arc, and entry i is deriveGeometry of the   *)
(* current radius - i * radiusDelta * radius and the current xOff.          *)
C27_GeometriesCurrent ==
  (self.preset = "Lemniscate" /\ ret.op \in {"new", "setOps"})
    => /\ Len(self.geometries) = self.arcs
       /\ \A i \in 1..Len(self.geometries) :
            self.geometries[i] = deriveGeometry(arcRadius(self, i - 1), self.xOff)

(* C29: performRadiusPulse returns a radius >= 0 for every ring, every      *)
(* currProgress in [0,1] and every pulse style, delay and intensity.        *)
C29_PulsedRadiusNotNegative ==
  (ret.op = "performRadiusPulse" /\ InUnitInterval(currProgress))
    => RLe(Zero, ret.value)

(* C22: for every progress value in [0,1], 0 and 1 included, and every arc, *)
(* getSection returns a section in 0..7 and never -1.                       *)
C22_SectionAlwaysValid ==
  (ret.op = "getSection" /\ InUnitInterval(ret.arg[1])) => ret.value \in 0..7

(* C25: for every radius > 0 and xOff > radius, the checkpoints of the      *)
(* geometry start at 0, end at 1, are strictly increasing and are the 9     *)
(* boundaries of exactly 8 sections, none of them duplicated.               *)
C25_CheckpointsStrictlyIncreasing ==
  (self.preset = "Lemniscate" /\ ret.op = "new") =>
    \A i \in 1..Len(self.geometries) :
      (RLt(Zero, arcRadius(self, i - 1)) /\ RLt(arcRadius(self, i - 1), self.xOff)) =>
        LET c == self.geometries[i].checkpoints
        IN  /\ c[1] = Zero
            /\ c[Len(c)] = One
            /\ \A j \in 1..(Len(c) - 1) : Greater(c[j + 1], c[j])
            /\ Len(c) - 1 = 8

(* a walk that left its loop at the bound, not at a break, on a path that   *)
(* has not come back to the tail section after the lead                     *)
BoundReachedUnclosed(w, tailSection) ==
  /\ ~w.broke
  /\ ~(w.hasDrawnLead /\ w.currSection = tailSection)

(* C23: a walk of Antiquum.draw or Lemniscate.drawArc that reaches its      *)
(* iteration bound without having closed the path raises an error, and the  *)
(* unclosed path is not filled or stroked.                                  *)
C23_BoundReachedRaises ==
  (ret.op \in {"draw", "drawArc"} /\ BoundReachedUnclosed(ret.value, ret.arg[1]))
    => ret.thrown /\ ~ret.value.filled

(* the commands of a path form one closed, continuous sub-path *)
OneClosedSubPath(c) ==
  /\ Len(c) > 0
  /\ c[1].cmd = "moveTo"
  /\ \A k \in 2..Len(c) :
       /\ c[k].cmd # "moveTo"
       /\ c[k].cmd = "bezierCurveTo" => c[k].from = c[k - 1].to
  /\ c[Len(c)].to = c[1].to

(* C21: for every arc Antiquum or Lemniscate draws, the commands issued     *)
(* between beginPath and the fill or stroke form one continuous closed      *)
(* sub-path: one moveTo, which comes first, every later segment starting    *)
(* where the one before it ended, and the last ending at the moveTo point.  *)
C21_OneClosedSubPath ==
  ret.op \in {"draw", "drawArc"} => OneClosedSubPath(ret.value.commands)

(* C30: the colour, pulsed alpha included, given to a ring of a Sempiternal *)
(* in a frame depends on currProgress and the configuration only: it is the *)
(* colour the same frame gives on an instance that has drawn nothing yet,   *)
(* whatever frames were drawn before and whatever colour they left.         *)
C30_RingColourHasNoHistory ==
  ret.op = "drawRing" =>
    LET fresh == [self EXCEPT !.currColour = "", !.strokeStyle = "", !.fillStyle = ""]
    IN  /\ ret.value = ringColour(fresh, currProgress, ret.arg)
        /\ self.currColour = ret.value

C30_Witness ==
  /\ ret.op = "drawRing"
  /\ ret.arg = 1
  /\ self.opacityPulse.style = "coelesce"
  /\ self.colours = <<"#ff0000", "#00ff00">>
  /\ self.opacity = One
  /\ currProgress = <<1, 3>>
  /\ ret.value = "#00ff0022"

====
